---- MODULE Spec2Model ----
(***************************************************************************)
(* Model of the Plex scan target, src/targets/plex/plex.go:                *)
(* construction (New), the availability probe (Available), scan dispatch   *)
(* (Scan, getScanLibrary) and the pure helpers isSupportedVersion and       *)
(* parseTimeout.  Go strings are sequences of one-character strings.       *)
(***************************************************************************)
EXTENDS Integers, Sequences, FiniteSets, TLC

VARIABLES
    cfg,        \* the Config handed to New
    newPc,      \* position of New: "start", "version", "libraries", "done"
    trace,      \* the steps New has run, in order
    ret,        \* what New returned: [target, err]
    remoteLog,  \* the version queries and library listings made for New, with their outcomes
    wk,         \* per caller: the Scan or Available call it is in
    ncalls,     \* calls started on the Target so far
    anyFailed,  \* some Scan on the Target has already returned an error
    fn          \* the pure-function harness: [pc, in, out]

vars == <<cfg, newPc, trace, ret, remoteLog, wk, ncalls, anyFailed, fn>>

----------------------------------------------------------------------------
(* Bounds *)

MaxLen == 4         \* longest version / timeout string enumerated
MaxLibs == 2        \* longest library listing the remote returns
MaxCalls == 2       \* calls made on one Target
MaxFields == 2      \* fields of a configuration shown on the config page

----------------------------------------------------------------------------
(* Strings *)

Digits == <<"0", "1", "2", "3", "4", "5", "6", "7", "8", "9">>

IsDigit(c) == \E d \in 1..10 : Digits[d] = c

DigitVal(c) == (CHOOSE d \in 1..10 : Digits[d] = c) - 1

\* All strings over alphabet A of length at most n.
StringsUpTo(A, n) == UNION {[1..k -> A] : k \in 0..n}

\* s[from..] as a sequence (empty when from is past the end).
Drop(s, from) == SubSeq(s, from, Len(s))

\* strings.HasPrefix(s, prefix)
HasPrefix(s, prefix) ==
    /\ Len(s) >= Len(prefix)
    /\ SubSeq(s, 1, Len(prefix)) = prefix

\* The ASCII characters strings.TrimSpace removes.
Whitespace == {" ", "\t", "\n", "\r"}

\* strings.TrimSpace(s) == ""
IsBlank(s) == \A i \in 1..Len(s) : s[i] \in Whitespace

\* strings.TrimPrefix(s, prefix)
TrimPrefix(s, prefix) ==
    IF HasPrefix(s, prefix) THEN Drop(s, Len(prefix) + 1) ELSE s

Letters ==
    {"a", "b", "c", "d", "e", "f", "g", "h", "i", "j", "k", "l", "m", "n", "o",
     "p", "q", "r", "s", "t", "u", "v", "w", "x", "y", "z",
     "A", "B", "C", "D", "E", "F", "G", "H", "I", "J", "K", "L", "M", "N", "O",
     "P", "Q", "R", "S", "T", "U", "V", "W", "X", "Y", "Z"}

IsLetter(c) == c \in Letters

\* strings.Split(s, sep) for a one-character separator
RECURSIVE Split(_, _)
Split(s, sep) ==
    IF \A i \in 1..Len(s) : s[i] # sep
    THEN <<s>>
    ELSE LET i == CHOOSE j \in 1..Len(s) :
                      /\ s[j] = sep
                      /\ \A k \in 1..(j - 1) : s[k] # sep
         IN  <<SubSeq(s, 1, i - 1)>> \o Split(Drop(s, i + 1), sep)

\* Value of a string of decimal digits (0 for the empty string).
RECURSIVE DecimalValue(_)
DecimalValue(s) ==
    IF s = <<>> THEN 0
    ELSE 10 * DecimalValue(SubSeq(s, 1, Len(s) - 1)) + DigitVal(s[Len(s)])

\* strconv.Atoi with the error discarded: an optional sign followed by one or
\* more decimal digits, anything else gives 0.
Atoi(s) ==
    LET signed == s # <<>> /\ s[1] \in {"+", "-"}
        body   == IF signed THEN Drop(s, 2) ELSE s
    IN  IF body = <<>> \/ \E i \in 1..Len(body) : ~IsDigit(body[i])
        THEN 0
        ELSE IF signed /\ s[1] = "-" THEN 0 - DecimalValue(body)
             ELSE DecimalValue(body)

----------------------------------------------------------------------------
(* Errors.  fatal says whether the error wraps autoscan.ErrFatal. *)

Nil == [kind |-> "nil", fatal |-> FALSE, detail |-> <<>>]

\* fmt.Errorf("plex running unsupported version %s: %w", version, ErrFatal)
ErrUnsupported(version) ==
    [kind |-> "unsupported", fatal |-> TRUE, detail |-> version]

\* fmt.Errorf("invalid plex timeout %q: ...", raw, ...)
ErrTimeout(raw) == [kind |-> "timeout", fatal |-> FALSE, detail |-> raw]

\* fmt.Errorf("%v: failed determining libraries", folder)
ErrNoLibraries(folder) ==
    [kind |-> "nolibraries", fatal |-> FALSE, detail |-> folder]

----------------------------------------------------------------------------
(* isSupportedVersion *)

\* Variant of isSupportedVersion with the minor floor off by one (minor > 20).
isSupportedVersionMinorOff(version) ==
    LET parts == Split(version, ".")
    IN  IF Len(parts) < 2 THEN FALSE
        ELSE LET major == Atoi(parts[1])
                 minor == Atoi(parts[2])
             IN  major >= 2 \/ (major = 1 /\ minor > 20)

isSupportedVersion(version) ==
    LET parts == Split(version, ".")
    IN  IF Len(parts) < 2 THEN FALSE
        ELSE LET major == Atoi(parts[1])
                 minor == Atoi(parts[2])
             IN  major >= 2 \/ (major = 1 /\ minor >= 20)

----------------------------------------------------------------------------
(* parseTimeout *)

\* time.ParseDuration's leadingInt: the longest prefix of digits.
LeadingDigits(s) ==
    LET n == CHOOSE k \in 0..Len(s) :
                 /\ \A i \in 1..k : IsDigit(s[i])
                 /\ (k < Len(s) => ~IsDigit(s[k + 1]))
    IN  n

\* The unit of a duration group: everything up to the next "." or digit.
UnitLen(s) ==
    CHOOSE k \in 0..Len(s) :
        /\ \A i \in 1..k : ~(s[i] = "." \/ IsDigit(s[i]))
        /\ (k < Len(s) => (s[k + 1] = "." \/ IsDigit(s[k + 1])))

\* time's unitMap, in milliseconds, for the unit spellable here.
UnitMillis(u) == IF u = <<"s">> THEN 1000 ELSE 0

RECURSIVE Pow10(_)
Pow10(n) == IF n = 0 THEN 1 ELSE 10 * Pow10(n - 1)

\* One group [0-9]*(\.[0-9]*)?[a-z]+ at the head of s, as time.ParseDuration
\* reads it: [ok, d, len] with d in milliseconds and len the characters read.
DurationGroup(s) ==
    LET nv   == LeadingDigits(s)
        v    == DecimalValue(SubSeq(s, 1, nv))
        s1   == Drop(s, nv + 1)
        dot  == s1 # <<>> /\ s1[1] = "."
        s2   == IF dot THEN Drop(s1, 2) ELSE s1
        nf   == IF dot THEN LeadingDigits(s2) ELSE 0
        f    == DecimalValue(SubSeq(s2, 1, nf))
        s3   == Drop(s2, nf + 1)
        nu   == UnitLen(s3)
        unit == UnitMillis(SubSeq(s3, 1, nu))
        bad  == [ok |-> FALSE, d |-> 0, len |-> 0]
    IN  IF ~(s[1] = "." \/ IsDigit(s[1])) THEN bad
        ELSE IF nv = 0 /\ nf = 0 THEN bad      \* no digits
        ELSE IF nu = 0 THEN bad                 \* missing unit
        ELSE IF unit = 0 THEN bad               \* unknown unit
        ELSE [ok  |-> TRUE,
              d   |-> v * unit + ((f * unit) \div Pow10(nf)),
              len |-> nv + (IF dot THEN 1 ELSE 0) + nf + nu]

\* The loop of time.ParseDuration over the groups of s, d the sum so far:
\* [ok, d]
RECURSIVE DurationGroups(_, _)
DurationGroupsAfter(s, d, group) ==
    IF ~group.ok THEN [ok |-> FALSE, d |-> 0]
    ELSE DurationGroups(Drop(s, group.len + 1), d + group.d)

DurationGroups(s, d) ==
    IF s = <<>> THEN [ok |-> TRUE, d |-> d]
    ELSE DurationGroupsAfter(s, d, DurationGroup(s))

\* The sign applied to the summed groups.
DurationSigned(groups, neg) ==
    IF ~groups.ok THEN groups
    ELSE [ok |-> TRUE, d |-> IF neg THEN 0 - groups.d ELSE groups.d]

\* time.ParseDuration once the sign is read.
DurationUnsigned(body, neg) ==
    IF body = <<"0">> THEN [ok |-> TRUE, d |-> 0]
    ELSE IF body = <<>> THEN [ok |-> FALSE, d |-> 0]
    ELSE DurationSigned(DurationGroups(body, 0), neg)

\* time.ParseDuration(s): [ok, d]
ParseDuration(s) ==
    IF s # <<>> /\ s[1] \in {"+", "-"}
    THEN DurationUnsigned(Drop(s, 2), s[1] = "-")
    ELSE DurationUnsigned(s, FALSE)

\* Variant of timeoutChecked that lets a zero duration through (timeout < 0).
timeoutCheckedAllowsZero(raw, timeout) ==
    IF ~timeout.ok THEN [d |-> 0, err |-> ErrTimeout(raw)]
    ELSE IF timeout.d < 0 THEN [d |-> 0, err |-> ErrTimeout(raw)]
    ELSE [d |-> timeout.d, err |-> Nil]

\* Lines 98-106: the checks on what time.ParseDuration returned.
timeoutChecked(raw, timeout) ==
    IF ~timeout.ok THEN [d |-> 0, err |-> ErrTimeout(raw)]
    ELSE IF timeout.d <= 0 THEN [d |-> 0, err |-> ErrTimeout(raw)]
    ELSE [d |-> timeout.d, err |-> Nil]

\* parseTimeout(raw): [d, err]
parseTimeout(raw) ==
    IF IsBlank(raw) THEN [d |-> 0, err |-> Nil]
    ELSE timeoutChecked(raw, ParseDuration(raw))

----------------------------------------------------------------------------
(* The client's product and identifier.  url.Parse is modelled for raw URLs *)
(* without query, fragment, userinfo, bracketed host, percent escape and    *)
(* control character.                                                       *)

\* The URL https://www.example.com:32400.
ExampleUrl ==
    <<"h", "t", "t", "p", "s", ":", "/", "/", "w", "w", "w", ".",
      "e", "x", "a", "m", "p", "l", "e", ".", "c", "o", "m", ":",
      "3", "2", "4", "0", "0">>

\* The fallback product, and the fallback identifier: "autoscan".
Autoscan == <<"a", "u", "t", "o", "s", "c", "a", "n">>

Www == <<"w", "w", "w", ".">>

\* url.getScheme: the index of the colon that ends the scheme, 0 when the URL
\* has no scheme, -1 when it starts with a colon (an error).
RECURSIVE SchemeEnd(_, _)
SchemeEnd(s, i) ==
    IF i > Len(s) THEN 0
    ELSE IF IsLetter(s[i]) THEN SchemeEnd(s, i + 1)
    ELSE IF IsDigit(s[i]) \/ s[i] \in {"+", "-", "."}
    THEN (IF i = 1 THEN 0 ELSE SchemeEnd(s, i + 1))
    ELSE IF s[i] = ":" THEN (IF i = 1 THEN 0 - 1 ELSE i)
    ELSE 0

\* The index of the first ch in s, Len(s) + 1 when there is none.
IndexOrEnd(s, ch) ==
    IF \E i \in 1..Len(s) : s[i] = ch
    THEN CHOOSE i \in 1..Len(s) : s[i] = ch /\ \A j \in 1..(i - 1) : s[j] # ch
    ELSE Len(s) + 1

\* strings.LastIndex(s, ch), 1-based; 0 when there is none.
LastIndex(s, ch) ==
    IF \E i \in 1..Len(s) : s[i] = ch
    THEN CHOOSE i \in 1..Len(s) :
             s[i] = ch /\ \A j \in (i + 1)..Len(s) : s[j] # ch
    ELSE 0

\* url.validOptionalPort
ValidOptionalPort(port) ==
    \/ port = <<>>
    \/ /\ port[1] = ":"
       /\ \A i \in 2..Len(port) : IsDigit(port[i])

\* A character url.unescape accepts unescaped in a host.
HostChar(c) ==
    \/ IsLetter(c)
    \/ IsDigit(c)
    \/ c \in {"-", "_", ".", "~", "!", "$", "&", "'", "(", ")", "*", "+", ",",
              ";", "=", ":", "[", "]", "<", ">", "\""}

NoUrl == [ok |-> FALSE, Host |-> <<>>]

\* url.parseHost: the port after the last colon must be digits, and every
\* character must be one a host may hold.
UrlParseHost(host, colon) ==
    IF colon > 0 /\ ~ValidOptionalPort(Drop(host, colon)) THEN NoUrl
    ELSE IF \E i \in 1..Len(host) : ~HostChar(host[i]) THEN NoUrl
    ELSE [ok |-> TRUE, Host |-> host]

\* url.parse after the scheme: a rootless rest is opaque under a scheme and
\* must not have a colon in its first segment otherwise; a rest that starts
\* with // carries the authority up to the next slash.
UrlParseAuthority(authority) ==
    UrlParseHost(authority, LastIndex(authority, ":"))

UrlParseRest(hasScheme, rest) ==
    IF ~HasPrefix(rest, <<"/">>)
    THEN IF hasScheme THEN [ok |-> TRUE, Host |-> <<>>]
         ELSE IF IndexOrEnd(rest, ":") < IndexOrEnd(rest, "/") THEN NoUrl
         ELSE [ok |-> TRUE, Host |-> <<>>]
    ELSE IF /\ HasPrefix(rest, <<"/", "/">>)
            /\ (hasScheme \/ ~HasPrefix(rest, <<"/", "/", "/">>))
    THEN UrlParseAuthority(SubSeq(rest, 3, IndexOrEnd(Drop(rest, 3), "/") + 1))
    ELSE [ok |-> TRUE, Host |-> <<>>]

UrlParseFrom(rawURL, e) ==
    IF e < 0 THEN NoUrl
    ELSE IF e > 0 THEN UrlParseRest(TRUE, Drop(rawURL, e + 1))
    ELSE UrlParseRest(FALSE, rawURL)

\* url.Parse(rawURL): [ok, Host]
UrlParse(rawURL) == UrlParseFrom(rawURL, SchemeEnd(rawURL, 1))

\* Variant of IdentifierOf that keeps a leading "www.".
IdentifierOfKeepsWww(parsed) ==
    IF ~parsed.ok \/ parsed.Host = <<>> THEN Autoscan
    ELSE Autoscan \o <<"-">> \o parsed.Host

\* Lines 111-120: the identifier for the parsed URL.
IdentifierOf(parsed) ==
    IF ~parsed.ok \/ parsed.Host = <<>> THEN Autoscan
    ELSE IF TrimPrefix(parsed.Host, Www) = <<>> THEN Autoscan
    ELSE Autoscan \o <<"-">> \o TrimPrefix(parsed.Host, Www)

defaultClientIdentifier(rawURL) == IdentifierOf(UrlParse(rawURL))

\* Lines 50-58: the product and the client identifier the client is made with.
ClientIdentity(c) ==
    [product |-> IF IsBlank(c.product) THEN Autoscan ELSE c.product,
     clientIdentifier |-> IF IsBlank(c.clientIdentifier)
                          THEN defaultClientIdentifier(c.url)
                          ELSE c.clientIdentifier]

----------------------------------------------------------------------------
(* The collaborators: the rewriter and the remote service client *)

Workers == {"w1", "w2"}

\* Rewrite configurations: no rules, one rule /m/t -> /t, a rule that does
\* not compile.
RewriteConfigs == {"identity", "rule", "bad"}

\* The one rule of the "rule" configuration: a leading /m is dropped.
RuleFrom == <<"/", "m">>
RuleTo == <<>>

\* The rewriter autoscan.NewRewriter builds, applied to a path.
Rewrite(rw, path) ==
    IF rw = "rule" /\ HasPrefix(path, RuleFrom)
    THEN RuleTo \o Drop(path, Len(RuleFrom) + 1)
    ELSE path

ErrRewriter == [kind |-> "rewriter", fatal |-> FALSE, detail |-> <<>>]

\* Errors the client returns: a transport error, and one the client itself
\* tagged fatal.
ClientErrs ==
    { [kind |-> "client", fatal |-> FALSE, detail |-> <<"e1">>],
      [kind |-> "client", fatal |-> TRUE,  detail |-> <<"e2">>] }

\* Versions the remote reports to a Target's queries.
RemoteVersions == { <<"1", ".", "2", "0">>, <<"1", ".", "1", "9">> }

\* api.Version(): (version, err)
VersionOutcomes ==
    {[err |-> Nil, version |-> v] : v \in RemoteVersions}
        \cup {[err |-> e, version |-> <<>>] : e \in ClientErrs}

\* Libraries the remote may list: a root, a root nested in it, another root.
LibraryPool ==
    { [ID |-> 1, Path |-> <<"/", "m">>],
      [ID |-> 2, Path |-> <<"/", "m", "/", "t">>],
      [ID |-> 3, Path |-> <<"/", "t">>] }

\* The catalog /data/movies (id 1), /data/tv (id 2).
ExampleCatalog ==
    << [ID |-> 1, Path |-> <<"/", "d", "a", "t", "a", "/",
                             "m", "o", "v", "i", "e", "s">>],
       [ID |-> 2, Path |-> <<"/", "d", "a", "t", "a", "/", "t", "v">>] >>

\* api.Libraries(): (libraries, err)
LibrariesOutcomes ==
    {[err |-> Nil, libs |-> l] :
        l \in StringsUpTo(LibraryPool, MaxLibs) \cup {ExampleCatalog}}
        \cup {[err |-> e, libs |-> <<>>] : e \in ClientErrs}

\* api.Scan(path, id): err
ScanOutcomes == {Nil} \cup ClientErrs

\* Folders of scan events.
\* The folder /data/movies/Inception (2010).
ExampleFolder ==
    <<"/", "d", "a", "t", "a", "/", "m", "o", "v", "i", "e", "s", "/",
      "I", "n", "c", "e", "p", "t", "i", "o", "n", " ",
      "(", "2", "0", "1", "0", ")">>

Folders ==
    { <<"/", "m", "/", "t", "/", "x">>,
      <<"/", "m", "x">>,
      <<"/", "m", "/", "m", "/", "t">>,
      ExampleFolder }

\* Timeouts configured in the construction runs.
ConfigTimeouts == { <<>>, <<"5", "s">>, <<"0", "s">> }

----------------------------------------------------------------------------
(* New *)

NoTarget ==
    [nil |-> TRUE, libraries |-> <<>>, rewrite |-> "none", timeout |-> 0,
     product |-> <<>>, clientIdentifier |-> <<>>]

Pending == [target |-> NoTarget, err |-> Nil]

\* Lines 45-60: New once parseTimeout has returned t.
\* Variant of NewConfigAfterTimeout that ignores parseTimeout's error.
NewConfigAfterTimeoutUnchecked(t) ==
    [trace |-> <<"NewRewriter", "parseTimeout">>, done |-> FALSE, ret |-> Pending]

NewConfigAfterTimeout(t) ==
    IF t.err # Nil
    THEN [trace |-> <<"NewRewriter", "parseTimeout">>, done |-> TRUE,
          ret |-> [target |-> NoTarget, err |-> t.err]]
    ELSE [trace |-> <<"NewRewriter", "parseTimeout">>, done |-> FALSE,
          ret |-> Pending]

\* Lines 36-60: build the rewriter, parse the timeout, create the client.
\* [trace, done, ret]
NewConfigStep(c) ==
    IF c.rewrite = "bad"
    THEN [trace |-> <<"NewRewriter">>, done |-> TRUE,
          ret |-> [target |-> NoTarget, err |-> ErrRewriter]]
    ELSE NewConfigAfterTimeout(parseTimeout(c.timeout))

\* Variant of NewVersionStep whose unsupported-version error lacks the fatal tag.
NewVersionStepGateNotFatal(out) ==
    IF out.err # Nil
    THEN [trace |-> <<"Version">>, done |-> TRUE,
          ret |-> [target |-> NoTarget, err |-> out.err]]
    ELSE IF ~isSupportedVersion(out.version)
    THEN [trace |-> <<"Version", "gate">>, done |-> TRUE,
          ret |-> [target |-> NoTarget,
                   err |-> [ErrUnsupported(out.version) EXCEPT !.fatal = FALSE]]]
    ELSE [trace |-> <<"Version", "gate">>, done |-> FALSE, ret |-> Pending]

\* Lines 62-70: the version query and the compatibility gate, given the
\* query's outcome.
NewVersionStep(out) ==
    IF out.err # Nil
    THEN [trace |-> <<"Version">>, done |-> TRUE,
          ret |-> [target |-> NoTarget, err |-> out.err]]
    ELSE IF ~isSupportedVersion(out.version)
    THEN [trace |-> <<"Version", "gate">>, done |-> TRUE,
          ret |-> [target |-> NoTarget, err |-> ErrUnsupported(out.version)]]
    ELSE [trace |-> <<"Version", "gate">>, done |-> FALSE, ret |-> Pending]

\* Lines 72-90: the library listing and the Target built from it.
NewLibrariesStep(c, out) ==
    IF out.err # Nil
    THEN [target |-> NoTarget, err |-> out.err]
    ELSE [target |-> [nil |-> FALSE,
                      libraries |-> out.libs,
                      rewrite |-> c.rewrite,
                      timeout |-> parseTimeout(c.timeout).d,
                      product |-> ClientIdentity(c).product,
                      clientIdentifier |-> ClientIdentity(c).clientIdentifier],
          err |-> Nil]

\* Entries of remoteLog.
VersionCall(out) ==
    [op |-> "Version", err |-> out.err, version |-> out.version, libs |-> <<>>]

LibrariesCall(out) ==
    [op |-> "Libraries", err |-> out.err, version |-> <<>>, libs |-> out.libs]

NewConfig ==
    /\ newPc = "start"
    /\ \E r \in {NewConfigStep(cfg)} :
         /\ trace' = trace \o r.trace
         /\ ret' = r.ret
         /\ newPc' = IF r.done THEN "done" ELSE "version"
    /\ UNCHANGED <<cfg, remoteLog, wk, ncalls, anyFailed, fn>>

NewVersion ==
    /\ newPc = "version"
    /\ \E out \in VersionOutcomes :
         \E r \in {NewVersionStep(out)} :
             /\ trace' = trace \o r.trace
             /\ remoteLog' = Append(remoteLog, VersionCall(out))
             /\ ret' = r.ret
             /\ newPc' = IF r.done THEN "done" ELSE "libraries"
    /\ UNCHANGED <<cfg, wk, ncalls, anyFailed, fn>>

NewLibraries ==
    /\ newPc = "libraries"
    /\ \E out \in LibrariesOutcomes :
         /\ trace' = Append(trace, "Libraries")
         /\ remoteLog' = Append(remoteLog, LibrariesCall(out))
         /\ ret' = NewLibrariesStep(cfg, out)
         /\ newPc' = "done"
    /\ UNCHANGED <<cfg, wk, ncalls, anyFailed, fn>>

----------------------------------------------------------------------------
(* Available and Scan *)

\* The Target callers hold once New has returned it.
T == ret.target

Constructed == newPc = "done" /\ ~T.nil

Idle ==
    [op |-> "none", pc |-> "idle", folder |-> <<>>, scanFolder |-> <<>>,
     libs |-> <<>>, i |-> 0, sent |-> <<>>, outs |-> <<>>, result |-> Nil,
     after |-> FALSE, belowFloor |-> FALSE]

RECURSIVE SelectLibraries(_, _)
SelectLibraries(libraries, folder) ==
    IF libraries = <<>> THEN <<>>
    ELSE (IF HasPrefix(folder, Head(libraries).Path)
          THEN <<Head(libraries)>> ELSE <<>>)
         \o SelectLibraries(Tail(libraries), folder)

\* A resolver that only matches at a path boundary.
RECURSIVE SelectLibrariesAtBoundary(_, _)
SelectLibrariesAtBoundary(libraries, folder) ==
    IF libraries = <<>> THEN <<>>
    ELSE LET p == Head(libraries).Path
         IN  (IF /\ HasPrefix(folder, p)
                 /\ (Len(folder) = Len(p) \/ folder[Len(p) + 1] = "/")
              THEN <<Head(libraries)>> ELSE <<>>)
             \o SelectLibrariesAtBoundary(Tail(libraries), folder)

getScanLibraryAtBoundary(t, folder) ==
    LET libraries == SelectLibrariesAtBoundary(t.libraries, folder)
    IN  IF Len(libraries) = 0
        THEN [libs |-> <<>>, err |-> ErrNoLibraries(folder)]
        ELSE [libs |-> libraries, err |-> Nil]

\* A resolver that tests the prefix relation the other way round: the folder
\* as a prefix of the library path.
RECURSIVE SelectLibrariesReversed(_, _)
SelectLibrariesReversed(libraries, folder) ==
    IF libraries = <<>> THEN <<>>
    ELSE (IF HasPrefix(Head(libraries).Path, folder)
          THEN <<Head(libraries)>> ELSE <<>>)
         \o SelectLibrariesReversed(Tail(libraries), folder)

getScanLibraryReversed(t, folder) ==
    LET libraries == SelectLibrariesReversed(t.libraries, folder)
    IN  IF Len(libraries) = 0
        THEN [libs |-> <<>>, err |-> ErrNoLibraries(folder)]
        ELSE [libs |-> libraries, err |-> Nil]

\* t.getScanLibrary(folder): [libs, err]
getScanLibrary(t, folder) ==
    LET libraries == SelectLibraries(t.libraries, folder)
    IN  IF Len(libraries) = 0
        THEN [libs |-> <<>>, err |-> ErrNoLibraries(folder)]
        ELSE [libs |-> libraries, err |-> Nil]

\* Variant of ScanBegin that returns the resolver's error to the caller.
ScanBeginReturnsErr(t, folder) ==
    LET scanFolder == Rewrite(t.rewrite, folder)
        r == getScanLibrary(t, scanFolder)
    IN  IF r.err # Nil
        THEN [Idle EXCEPT !.op = "Scan", !.pc = "done", !.folder = folder,
                          !.scanFolder = scanFolder, !.result = r.err]
        ELSE [Idle EXCEPT !.op = "Scan", !.pc = "send", !.folder = folder,
                          !.scanFolder = scanFolder, !.libs = r.libs, !.i = 1]

\* Variant of ScanBegin that rewrites the folder before resolving and once
\* more before dispatching.
ScanBeginRewritesTwice(t, folder) ==
    LET scanFolder == Rewrite(t.rewrite, folder)
        r == getScanLibrary(t, scanFolder)
    IN  IF r.err # Nil
        THEN [Idle EXCEPT !.op = "Scan", !.pc = "done", !.folder = folder,
                          !.scanFolder = scanFolder, !.result = Nil]
        ELSE [Idle EXCEPT !.op = "Scan", !.pc = "send", !.folder = folder,
                          !.scanFolder = Rewrite(t.rewrite, scanFolder),
                          !.libs = r.libs, !.i = 1]

\* Lines 130-139: rewrite the folder and resolve its libraries; with none,
\* return nil.
ScanBegin(t, folder) ==
    LET scanFolder == Rewrite(t.rewrite, folder)
        r == getScanLibrary(t, scanFolder)
    IN  IF r.err # Nil
        THEN [Idle EXCEPT !.op = "Scan", !.pc = "done", !.folder = folder,
                          !.scanFolder = scanFolder, !.result = Nil]
        ELSE [Idle EXCEPT !.op = "Scan", !.pc = "send", !.folder = folder,
                          !.scanFolder = scanFolder, !.libs = r.libs, !.i = 1]

\* Variant of ScanIssue that queries the remote version before the trigger.
ScanIssueQueriesVersion(c) ==
    [c EXCEPT !.pc = "wait",
              !.sent = @ \o <<[op |-> "Version", path |-> <<>>, id |-> 0],
                              [op |-> "Scan", path |-> c.scanFolder,
                               id |-> c.libs[c.i].ID]>>]

\* Line 150: the call t.api.Scan(scanFolder, lib.ID) is issued.
ScanIssue(c) ==
    [c EXCEPT !.pc = "wait",
              !.sent = Append(@, [op |-> "Scan", path |-> c.scanFolder,
                                  id |-> c.libs[c.i].ID])]

\* Variant of ScanAfter that goes on to the next library after a failure.
ScanAfterContinues(c, err) ==
    LET logged == [c EXCEPT !.outs = Append(@, [err |-> err, version |-> <<>>])]
    IN  IF c.i < Len(c.libs)
        THEN [logged EXCEPT !.pc = "send", !.i = c.i + 1]
        ELSE [logged EXCEPT !.pc = "done", !.result = err]

\* Lines 150-157: the call returned err; return it, or go on to the next
\* library, or return nil after the last.
ScanAfter(c, err) ==
    LET logged == [c EXCEPT !.outs = Append(@, [err |-> err, version |-> <<>>])]
    IN  IF err # Nil
        THEN [logged EXCEPT !.pc = "done", !.result = err]
        ELSE IF c.i < Len(c.libs)
        THEN [logged EXCEPT !.pc = "send", !.i = c.i + 1]
        ELSE [logged EXCEPT !.pc = "done", !.result = Nil]

\* Line 124: the version query is issued.
AvailableBegin ==
    [Idle EXCEPT !.op = "Available", !.pc = "wait",
                 !.sent = <<[op |-> "Version", path |-> <<>>, id |-> 0]>>]

\* Variant of AvailableAfter that applies the compatibility gate.
AvailableAfterGated(c, out) ==
    [c EXCEPT !.pc = "done", !.outs = Append(@, out),
              !.result = IF out.err = Nil /\ ~isSupportedVersion(out.version)
                         THEN ErrUnsupported(out.version) ELSE out.err]

\* Lines 124-125: the query returned; its error is the result.
AvailableAfter(c, out) ==
    [c EXCEPT !.pc = "done", !.outs = Append(@, out), !.result = out.err]

\* Some Available call that has returned was told a version below the floor.
BelowFloorSeen ==
    \E v \in Workers :
        /\ wk[v].op = "Available"
        /\ wk[v].pc = "done"
        /\ wk[v].outs[1].err = Nil
        /\ ~isSupportedVersion(wk[v].outs[1].version)

CanStart(w) ==
    /\ Constructed
    /\ wk[w].pc \in {"idle", "done"}
    /\ ncalls < MaxCalls

ScanStart(w) ==
    /\ CanStart(w)
    /\ \E folder \in Folders :
         wk' = [wk EXCEPT ![w] = [ScanBegin(T, folder)
                                     EXCEPT !.after = anyFailed,
                                            !.belowFloor = BelowFloorSeen]]
    /\ ncalls' = ncalls + 1
    /\ UNCHANGED <<cfg, newPc, trace, ret, remoteLog, anyFailed, fn>>

\* Variant of ScanSend that may issue the next trigger while the previous one
\* is still outstanding.
ScanSendEager(w) ==
    /\ wk[w].op = "Scan"
    /\ \/ /\ wk[w].pc = "send"
          /\ wk' = [wk EXCEPT ![w] = ScanIssue(@)]
       \/ /\ wk[w].pc = "wait"
          /\ wk[w].i < Len(wk[w].libs)
          /\ wk' = [wk EXCEPT ![w] = ScanIssue([@ EXCEPT !.i = @ + 1])]
    /\ UNCHANGED <<cfg, newPc, trace, ret, remoteLog, ncalls, anyFailed, fn>>

ScanSend(w) ==
    /\ wk[w].op = "Scan"
    /\ wk[w].pc = "send"
    /\ wk' = [wk EXCEPT ![w] = ScanIssue(@)]
    /\ UNCHANGED <<cfg, newPc, trace, ret, remoteLog, ncalls, anyFailed, fn>>

\* Variant of ScanReturn in which a failed Scan empties the Target's catalog.
ScanReturnDropsLibraries(w) ==
    /\ wk[w].op = "Scan"
    /\ wk[w].pc = "wait"
    /\ \E err \in ScanOutcomes :
         /\ wk' = [wk EXCEPT ![w] = ScanAfter(@, err)]
         /\ anyFailed' = (anyFailed \/ err # Nil)
         /\ ret' = IF err # Nil THEN [ret EXCEPT !.target.libraries = <<>>]
                   ELSE ret
    /\ UNCHANGED <<cfg, newPc, trace, remoteLog, ncalls, fn>>

ScanReturn(w) ==
    /\ wk[w].op = "Scan"
    /\ wk[w].pc = "wait"
    /\ \E err \in ScanOutcomes :
         /\ wk' = [wk EXCEPT ![w] = ScanAfter(@, err)]
         /\ anyFailed' = (anyFailed \/ err # Nil)
    /\ UNCHANGED <<cfg, newPc, trace, ret, remoteLog, ncalls, fn>>

AvailableStart(w) ==
    /\ CanStart(w)
    /\ wk' = [wk EXCEPT ![w] = AvailableBegin]
    /\ ncalls' = ncalls + 1
    /\ UNCHANGED <<cfg, newPc, trace, ret, remoteLog, anyFailed, fn>>

\* Variant of AvailableReturn that lists the libraries again and stores them.
AvailableReturnRefetches(w) ==
    /\ wk[w].op = "Available"
    /\ wk[w].pc = "wait"
    /\ \E out \in VersionOutcomes, l \in LibrariesOutcomes :
         /\ wk' = [wk EXCEPT ![w] = AvailableAfter(@, out)]
         /\ remoteLog' = Append(remoteLog, LibrariesCall(l))
         /\ ret' = IF l.err = Nil THEN [ret EXCEPT !.target.libraries = l.libs]
                   ELSE ret
    /\ UNCHANGED <<cfg, newPc, trace, ncalls, anyFailed, fn>>

AvailableReturn(w) ==
    /\ wk[w].op = "Available"
    /\ wk[w].pc = "wait"
    /\ \E out \in VersionOutcomes :
         wk' = [wk EXCEPT ![w] = AvailableAfter(@, out)]
    /\ UNCHANGED <<cfg, newPc, trace, ret, remoteLog, ncalls, anyFailed, fn>>

----------------------------------------------------------------------------
(* The config page of the web UI, src/unnamed/part_000: the configuration  *)
(* is marshalled to YAML and redacted line by line.                        *)

\* The number of leading characters of s that are in chars.
LeadingCount(s, chars) ==
    IF \A i \in 1..Len(s) : s[i] \in chars THEN Len(s)
    ELSE (CHOOSE i \in 1..Len(s) :
              s[i] \notin chars /\ \A j \in 1..(i - 1) : s[j] \in chars) - 1

\* The number of trailing characters of s that are in chars.
TrailingCount(s, chars) ==
    IF \A i \in 1..Len(s) : s[i] \in chars THEN Len(s)
    ELSE Len(s) - (CHOOSE i \in 1..Len(s) :
                       s[i] \notin chars /\ \A j \in (i + 1)..Len(s) : s[j] \in chars)

\* strings.TrimLeft(s, cutset)
TrimLeft(s, chars) == Drop(s, LeadingCount(s, chars) + 1)

\* strings.TrimSpace(s)
TrimSpace(s) ==
    IF IsBlank(s) THEN <<>>
    ELSE SubSeq(s, LeadingCount(s, Whitespace) + 1,
                   Len(s) - TrailingCount(s, Whitespace))

\* strings.Join(elems, sep)
RECURSIVE Join(_, _)
Join(elems, sep) ==
    IF elems = <<>> THEN <<>>
    ELSE IF Len(elems) = 1 THEN elems[1]
    ELSE elems[1] \o sep \o Join(Tail(elems), sep)

TokenKey == <<"t", "o", "k", "e", "n">>
PasswordKey == <<"p", "a", "s", "s", "w", "o", "r", "d">>
ApiKeyKey == <<"a", "p", "i", "K", "e", "y">>

\* The text that replaces a value: ": \"REDACTED\"" after the key.
Redacted == <<":", " ", "\"", "R", "E", "D", "A", "C", "T", "E", "D", "\"">>

\* Lines 150-153
redactLine(line, key) ==
    SubSeq(line, 1, Len(line) - Len(TrimLeft(line, {" "}))) \o key \o Redacted

\* Lines 136-144: one line of the loop, trimmed being strings.TrimSpace(line).
redactedLine(line, trimmed) ==
    IF HasPrefix(trimmed, TokenKey \o <<":">>) THEN redactLine(line, TokenKey)
    ELSE IF HasPrefix(trimmed, PasswordKey \o <<":">>)
    THEN redactLine(line, PasswordKey)
    ELSE IF HasPrefix(trimmed, ApiKeyKey \o <<":">>)
    THEN redactLine(line, ApiKeyKey)
    ELSE line

redactLines(lines) ==
    [i \in 1..Len(lines) |-> redactedLine(lines[i], TrimSpace(lines[i]))]

\* Lines 133-148
redactConfig(raw) == Join(redactLines(Split(raw, "\n")), <<"\n">>)

\* n spaces.
Spaces(n) == [i \in 1..n |-> " "]

\* yaml.Marshal of one string field at indentation indent: key and value on
\* one line, or, for a value of several lines, a literal block whose lines
\* follow the key, indented two further.
RECURSIVE MarshalBlock(_, _)
MarshalBlock(lines, indent) ==
    IF lines = <<>> THEN <<>>
    ELSE <<"\n">> \o Spaces(indent) \o Head(lines)
             \o MarshalBlock(Tail(lines), indent)

MarshalField(f) ==
    IF \E i \in 1..Len(f.value) : f.value[i] = "\n"
    THEN Spaces(f.indent) \o f.key \o <<":", " ", "|", "-">>
             \o MarshalBlock(Split(f.value, "\n"), f.indent + 2) \o <<"\n">>
    ELSE Spaces(f.indent) \o f.key \o <<":", " ">> \o f.value \o <<"\n">>

\* yaml.Marshal(c), line 86, for a configuration given as its string fields
\* in document order.
RECURSIVE Marshal(_)
Marshal(c) ==
    IF c = <<>> THEN <<>> ELSE MarshalField(Head(c)) \o Marshal(Tail(c))

\* Lines 86-94: what the config page shows for configuration c.
configYaml(c) == redactConfig(Marshal(c))

----------------------------------------------------------------------------
(* The Target's life: construction, then concurrent callers *)

NoFn == [pc |-> "off", in |-> <<>>, out |-> <<>>]

\* The construction runs leave product and client identifier unset, with
\* the URL h://w.
Configs ==
    [rewrite : RewriteConfigs, timeout : ConfigTimeouts,
     url : {<<"h", ":", "/", "/", "w">>},
     product : {<<>>}, clientIdentifier : {<<>>}]

Init ==
    /\ cfg \in Configs
    /\ newPc = "start"
    /\ trace = <<>>
    /\ ret = Pending
    /\ remoteLog = <<>>
    /\ wk = [w \in Workers |-> Idle]
    /\ ncalls = 0
    /\ anyFailed = FALSE
    /\ fn = NoFn

Next ==
    \/ NewConfig
    \/ NewVersion
    \/ NewLibraries
    \/ \E w \in Workers : ScanStart(w)
    \/ \E w \in Workers : ScanSend(w)
    \/ \E w \in Workers : ScanReturn(w)
    \/ \E w \in Workers : AvailableStart(w)
    \/ \E w \in Workers : AvailableReturn(w)

Spec == Init /\ [][Next]_vars

----------------------------------------------------------------------------
(* The pure functions, applied to enumerated inputs *)

Quiet ==
    /\ cfg = [rewrite |-> "identity", timeout |-> <<>>, url |-> <<>>,
              product |-> <<>>, clientIdentifier |-> <<>>]
    /\ newPc = "off"
    /\ trace = <<>>
    /\ ret = Pending
    /\ remoteLog = <<>>
    /\ wk = [w \in Workers |-> Idle]
    /\ ncalls = 0
    /\ anyFailed = FALSE

Outside == <<cfg, newPc, trace, ret, remoteLog, wk, ncalls, anyFailed>>

V120 == <<"1", ".", "2", "0", ".", "0">>
V200 == <<"2", ".", "0", ".", "0">>
V1199 == <<"1", ".", "1", "9", ".", "9">>
VOne == <<"1">>
VAbcDef == <<"a", "b", "c", ".", "d", "e", "f">>

VersionStrings ==
    StringsUpTo({"0", "1", "2", "9", ".", "a", "-"}, MaxLen)
        \cup {V120, V200, V1199, VOne, VAbcDef}

InitVersion ==
    /\ Quiet
    /\ \E v \in VersionStrings : fn = [pc |-> "version", in |-> v, out |-> <<>>]

ApplyIsSupportedVersion ==
    /\ fn.pc = "version"
    /\ fn' = [fn EXCEPT !.pc = "versionOut", !.out = isSupportedVersion(fn.in)]
    /\ UNCHANGED Outside

SpecVersion == InitVersion /\ [][ApplyIsSupportedVersion]_vars

T5s == <<"5", "s">>
T0s == <<"0", "s">>
TNeg1s == <<"-", "1", "s">>

TimeoutStrings ==
    StringsUpTo({"0", "1", "5", "s", "x", "-", " ", "."}, MaxLen)

InitTimeout ==
    /\ Quiet
    /\ \E raw \in TimeoutStrings : fn = [pc |-> "timeout", in |-> raw, out |-> <<>>]

ApplyParseTimeout ==
    /\ fn.pc = "timeout"
    /\ fn' = [fn EXCEPT !.pc = "timeoutOut", !.out = parseTimeout(fn.in)]
    /\ UNCHANGED Outside

SpecTimeout == InitTimeout /\ [][ApplyParseTimeout]_vars

\* Catalogs and folders for the resolver alone: the listed libraries, a
\* library with the empty path and one whose path is a whole folder.
ResolverPool ==
    LibraryPool \cup { [ID |-> 4, Path |-> <<>>],
                       [ID |-> 5, Path |-> <<"/", "m", "x">>] }

ResolverFolders ==
    Folders \cup { <<>>, <<"/">>, <<"/", "m">>, <<"/", "t">>,
                   <<"/", "t", "/", "m">> }

InitResolve ==
    /\ Quiet
    /\ \E libs \in StringsUpTo(ResolverPool, MaxLibs), folder \in ResolverFolders :
         fn = [pc |-> "resolve",
               in |-> [t |-> [NoTarget EXCEPT !.nil = FALSE, !.libraries = libs,
                                              !.rewrite = "identity"],
                       folder |-> folder],
               out |-> <<>>]

ApplyGetScanLibrary ==
    /\ fn.pc = "resolve"
    /\ fn' = [fn EXCEPT !.pc = "resolveOut",
                        !.out = getScanLibrary(fn.in.t, fn.in.folder)]
    /\ UNCHANGED Outside

SpecResolve == InitResolve /\ [][ApplyGetScanLibrary]_vars

SensitiveKeys == {TokenKey, PasswordKey, ApiKeyKey}

UrlKey == <<"u", "r", "l">>

\* Values of string fields: two one-line values and one of two lines.
FieldValues == { <<"a">>, <<"b">>, <<"a", "\n", "b">> }

ConfigFields ==
    [indent : {0, 2}, key : SensitiveKeys \cup {UrlKey}, value : FieldValues]

\* Configurations c and d have the same fields and differ at most in the
\* values of sensitive fields.
SameButSecrets(c, d) ==
    /\ Len(c) = Len(d)
    /\ \A i \in 1..Len(c) :
          /\ c[i].indent = d[i].indent
          /\ c[i].key = d[i].key
          /\ c[i].key \notin SensitiveKeys => c[i].value = d[i].value

\* Two configurations of that kind are shown on the config page.
InitRedact ==
    /\ Quiet
    /\ \E c, d \in StringsUpTo(ConfigFields, MaxFields) :
         /\ SameButSecrets(c, d)
         /\ fn = [pc |-> "redact", in |-> [c |-> c, d |-> d], out |-> <<>>]

ApplyRedactConfig ==
    /\ fn.pc = "redact"
    /\ fn' = [fn EXCEPT !.pc = "redactOut",
                        !.out = [c |-> configYaml(fn.in.c),
                                 d |-> configYaml(fn.in.d)]]
    /\ UNCHANGED Outside

SpecRedact == InitRedact /\ [][ApplyRedactConfig]_vars

\* What a URL starts with: nothing, slashes, a scheme, a colon, a digit.
UrlHeads ==
    { <<>>, <<"/">>, <<"/", "/">>, <<"/", "/", "/">>, <<"h", ":">>,
      <<"h", ":", "/">>, <<"h", ":", "/", "/">>, <<":", "/", "/">>,
      <<"1", ":", "/", "/">> }

HostAlphabet == {"w", ".", ":", "1", " "}

UrlHosts ==
    StringsUpTo(HostAlphabet, MaxLen)
        \cup {Www \o h : h \in StringsUpTo(HostAlphabet, 2)}

UrlTails == { <<>>, <<"/">>, <<"/", "w">> }

UrlStrings ==
    {ExampleUrl} \cup {p \o h \o t : p \in UrlHeads, h \in UrlHosts, t \in UrlTails}

Products == { <<>>, <<" ">>, <<"\t", " ">>, <<"p">>, <<" ", "p">> }

Identifiers == { <<>>, <<" ">>, <<" ", "\t">>, <<"c">>, <<"c", " ">>, Www }

\* Every URL with product and identifier unset, and every product and
\* identifier with three of the URLs.
IdentityConfigs ==
    [url : UrlStrings, product : {<<>>}, clientIdentifier : {<<>>}]
        \cup [url : {ExampleUrl, <<>>, <<"/", "/", "w">>},
              product : Products, clientIdentifier : Identifiers]

InitIdentity ==
    /\ Quiet
    /\ \E c \in IdentityConfigs : fn = [pc |-> "identity", in |-> c, out |-> <<>>]

ApplyClientIdentity ==
    /\ fn.pc = "identity"
    /\ fn' = [fn EXCEPT !.pc = "identityOut", !.out = ClientIdentity(fn.in)]
    /\ UNCHANGED Outside

SpecIdentity == InitIdentity /\ [][ApplyClientIdentity]_vars

----------------------------------------------------------------------------
(* Notions the properties are stated in *)

\* p is a literal prefix of s.
LiteralPrefix(p, s) ==
    /\ Len(p) <= Len(s)
    /\ \A i \in 1..Len(p) : p[i] = s[i]

\* The entries of catalog whose path is a literal prefix of folder, in
\* catalog order, one per matching element.
Matching(catalog, folder) ==
    LET S == {i \in 1..Len(catalog) : LiteralPrefix(catalog[i].Path, folder)}
        Nth(k) == CHOOSE i \in S : Cardinality({j \in S : j < i}) = k - 1
    IN  [k \in 1..Cardinality(S) |-> catalog[Nth(k)]]

Least(S) == CHOOSE i \in S : \A j \in S : i <= j

\* A version component read as an integer, 0 when it is not one.
RECURSIVE Horner(_, _)
Horner(s, acc) ==
    IF s = <<>> THEN acc ELSE Horner(Tail(s), 10 * acc + DigitVal(Head(s)))

IntOrZero(s) ==
    LET sign == IF s # <<>> /\ Head(s) = "-" THEN 0 - 1 ELSE 1
        body == IF s # <<>> /\ Head(s) \in {"-", "+"} THEN Tail(s) ELSE s
    IN  IF body # <<>> /\ \A i \in 1..Len(body) : IsDigit(body[i])
        THEN sign * Horner(body, 0)
        ELSE 0

\* The supported floor: at least two components, and 2.x or 1.20 and above.
MeetsFloor(v) ==
    LET dots == {i \in 1..Len(v) : v[i] = "."}
    IN  /\ dots # {}
        /\ LET d1 == Least(dots)
               later == {i \in dots : i > d1}
               d2 == IF later = {} THEN Len(v) + 1 ELSE Least(later)
               major == IntOrZero(SubSeq(v, 1, d1 - 1))
               minor == IntOrZero(SubSeq(v, d1 + 1, d2 - 1))
           IN  major >= 2 \/ (major = 1 /\ minor >= 20)

ScanCalls == {w \in Workers : wk[w].op = "Scan"}

AvailableCalls == {w \in Workers : wk[w].op = "Available"}

\* The rewritten folder and the catalog entries call c is about.
MatchingOf(c) == Matching(T.libraries, Rewrite(T.rewrite, c.folder))

----------------------------------------------------------------------------
(* Properties *)

\* C1: a Scan whose rewritten folder matches catalog entries L1..Ln (n >= 1,
\* catalog order, duplicates included) issues its triggers for L1, L2, ... in
\* that order; a failing trigger is the last one issued and its error is what
\* Scan returns; with no failure all n are issued once each and Scan returns
\* nil.
Thm_C1 ==
    \A w \in ScanCalls :
        LET c == wk[w]
            M == MatchingOf(c)
            k == Len(c.sent)
        IN  Len(M) >= 1 =>
              /\ k <= Len(M)
              /\ \A j \in 1..k : c.sent[j].op = "Scan" /\ c.sent[j].id = M[j].ID
              /\ Len(c.outs) = IF c.pc = "wait" THEN k - 1 ELSE k
              /\ \A j \in 1..Len(c.outs) :
                    c.outs[j].err # Nil =>
                        j = k /\ c.pc = "done" /\ c.result = c.outs[j].err
              /\ (c.pc = "done" /\ \A j \in 1..Len(c.outs) : c.outs[j].err = Nil)
                    => k = Len(M) /\ c.result = Nil

\* A Scan over two matching libraries whose first trigger failed: one trigger
\* issued, the error returned.
Witness_C1 ==
    \E w \in ScanCalls :
        /\ wk[w].pc = "done"
        /\ Len(MatchingOf(wk[w])) = 2
        /\ Len(wk[w].sent) = 1
        /\ wk[w].result \in ClientErrs

\* C2: a Scan whose rewritten folder matches no catalog entry (every Scan,
\* when the catalog is empty) returns nil and issues no remote call.
Thm_C2 ==
    \A w \in ScanCalls :
        LET c == wk[w]
        IN  (T.libraries = <<>> \/ Len(MatchingOf(c)) = 0) =>
              /\ c.pc = "done"
              /\ c.result = Nil
              /\ c.sent = <<>>
              /\ c.outs = <<>>

\* A Scan on a non-empty catalog that matched nothing.
Witness_C2 ==
    \E w \in ScanCalls :
        /\ T.libraries # <<>>
        /\ Len(MatchingOf(wk[w])) = 0
        /\ wk[w].pc = "done"
        /\ wk[w].result = Nil

\* C3: getScanLibrary(folder) returns exactly the catalog entries whose path
\* is a literal prefix of folder, in catalog order, with no path-boundary
\* check, and the no-match error iff there is none.
Thm_C3 ==
    fn.pc = "resolveOut" =>
        LET M == Matching(fn.in.t.libraries, fn.in.folder)
        IN  /\ fn.out.libs = M
            /\ (fn.out.err # Nil) <=> (Len(M) = 0)
            /\ fn.out.err # Nil => fn.out.err = ErrNoLibraries(fn.in.folder)
            /\ (\E i \in 1..Len(fn.in.t.libraries) :
                    /\ fn.in.t.libraries[i].Path = <<"/", "m">>
                    /\ fn.in.folder = <<"/", "m", "x">>) => fn.out.err = Nil

\* Folder /mx resolved against roots /m and /mx: both are returned.
Witness_C3 ==
    /\ fn.pc = "resolveOut"
    /\ fn.in.folder = <<"/", "m", "x">>
    /\ fn.out.libs = << [ID |-> 1, Path |-> <<"/", "m">>],
                        [ID |-> 5, Path |-> <<"/", "m", "x">>] >>

\* C4: when the version query succeeds with a version below the floor, New
\* returns an error wrapping ErrFatal and no Target, and never lists the
\* libraries; a failed version query or library listing is returned as the
\* client gave it.
Thm_C4 ==
    newPc = "done" =>
        /\ (/\ Len(remoteLog) >= 1
            /\ remoteLog[1].err = Nil
            /\ ~MeetsFloor(remoteLog[1].version)) =>
              /\ ret.err.fatal
              /\ ret.err.kind = "unsupported"
              /\ ret.err.detail = remoteLog[1].version
              /\ T.nil
              /\ \A j \in 1..Len(remoteLog) : remoteLog[j].op # "Libraries"
        /\ (Len(remoteLog) >= 1 /\ remoteLog[1].err # Nil) =>
              ret.err = remoteLog[1].err /\ Len(remoteLog) = 1
        /\ (Len(remoteLog) >= 2 /\ remoteLog[2].err # Nil) =>
              ret.err = remoteLog[2].err

\* New has returned after the remote reported 1.19.
Witness_C4 ==
    /\ newPc = "done"
    /\ remoteLog = <<VersionCall([err |-> Nil, version |-> <<"1", ".", "1", "9">>])>>
    /\ ret.err.fatal

\* The steps of New, in the order the code runs them.
NewSteps == <<"NewRewriter", "parseTimeout", "Version", "gate", "Libraries">>

\* Whether each step of New succeeded, for the configuration and the remote
\* outcomes of this run (a step not reached counts as failed).
StepOk ==
    << cfg.rewrite # "bad",
       IsBlank(cfg.timeout) \/ (ParseDuration(cfg.timeout).ok
                                 /\ ParseDuration(cfg.timeout).d > 0),
       Len(remoteLog) >= 1 /\ remoteLog[1].err = Nil,
       Len(remoteLog) >= 1 /\ remoteLog[1].err = Nil
                           /\ MeetsFloor(remoteLog[1].version),
       Len(remoteLog) >= 2 /\ remoteLog[2].err = Nil >>

\* The first step that failed among ok, or the last step when none did.
LastStep(ok) ==
    IF \A i \in 1..5 : ok[i] THEN 5
    ELSE Least({i \in 1..5 : ~ok[i]})

\* The remote operations among the first n steps.
RemoteOps(n) ==
    IF n <= 2 THEN <<>>
    ELSE IF n <= 4 THEN <<"Version">>
    ELSE <<"Version", "Libraries">>

\* C5: New returns exactly one of a Target and an error; a Target iff the
\* rewriter, the timeout, the version query, the compatibility gate and the
\* library listing all succeeded, in that order; the first failing step is the
\* last step run (a malformed timeout: no remote call), and a failed New
\* returns no Target at all.
Thm_C5 ==
    /\ newPc # "done" => ret = Pending
    /\ newPc = "done" =>
        \E ok \in {StepOk} : \E last \in {LastStep(ok)} :
            /\ T.nil <=> ret.err # Nil
            /\ ~T.nil <=> \A i \in 1..5 : ok[i]
            /\ trace = SubSeq(NewSteps, 1, last)
            /\ Len(remoteLog) = Len(RemoteOps(last))
            /\ \A j \in 1..Len(remoteLog) : remoteLog[j].op = RemoteOps(last)[j]
            /\ ~ok[2] => remoteLog = <<>>
            /\ T.nil => T = NoTarget
            /\ ~T.nil => /\ T.libraries = remoteLog[2].libs
                         /\ T.rewrite = cfg.rewrite

\* New has returned on a malformed timeout: an error, no Target, no remote call.
Witness_C5 ==
    /\ newPc = "done"
    /\ cfg.rewrite # "bad"
    /\ cfg.timeout = T0s
    /\ T.nil
    /\ ret.err.kind = "timeout"
    /\ remoteLog = <<>>

\* C6: isSupportedVersion(v) is true iff v has at least two dot-separated
\* components and, the first two read as integers with a non-numeric one
\* counting as 0, major >= 2 or (major = 1 and minor >= 20); 2.0.0 and 1.20.0
\* are supported, 1.19.9, 1 and abc.def are not.
Thm_C6 ==
    fn.pc = "versionOut" =>
        /\ fn.out = MeetsFloor(fn.in)
        /\ fn.in \in {V200, V120} => fn.out = TRUE
        /\ fn.in \in {V1199, VOne, VAbcDef} => fn.out = FALSE

\* isSupportedVersion has accepted 1.20.0.
Witness_C6 ==
    /\ fn.pc = "versionOut"
    /\ fn.in = V120
    /\ fn.out = TRUE

\* Whether raw parses as a strictly positive duration.
PositiveDuration(raw) == ParseDuration(raw).ok /\ ParseDuration(raw).d > 0

\* C7 as stated: only the empty string yields no timeout; every non-empty
\* string parses as a strictly positive duration or fails.
Orig_C7 ==
    fn.pc = "timeoutOut" =>
        /\ fn.in = <<>> => fn.out = [d |-> 0, err |-> Nil]
        /\ (fn.in # <<>> /\ PositiveDuration(fn.in)) =>
              fn.out = [d |-> ParseDuration(fn.in).d, err |-> Nil]
        /\ (fn.in # <<>> /\ ~PositiveDuration(fn.in)) =>
              fn.out.err.kind = "timeout"
        /\ fn.out.err = Nil => (fn.in = <<>> /\ fn.out.d = 0) \/ fn.out.d > 0

\* C7: a blank string (empty or spaces only) yields no timeout and no error;
\* every other string must parse as a strictly positive duration, else
\* parseTimeout fails with a configuration error; 5s yields 5 seconds, 0s and
\* -1s fail; a successful result is no timeout for a blank string or a
\* strictly positive duration.
Thm_C7 ==
    fn.pc = "timeoutOut" =>
        /\ IsBlank(fn.in) => fn.out = [d |-> 0, err |-> Nil]
        /\ (~IsBlank(fn.in) /\ PositiveDuration(fn.in)) =>
              fn.out = [d |-> ParseDuration(fn.in).d, err |-> Nil]
        /\ (~IsBlank(fn.in) /\ ~PositiveDuration(fn.in)) =>
              /\ fn.out.err.kind = "timeout"
              /\ fn.out.err.detail = fn.in
              /\ fn.out.d = 0
        /\ fn.out.err = Nil => (IsBlank(fn.in) /\ fn.out.d = 0) \/ fn.out.d > 0
        /\ fn.in = T5s => fn.out = [d |-> 5000, err |-> Nil]
        /\ fn.in \in {T0s, TNeg1s} => fn.out.err.kind = "timeout"

\* parseTimeout has accepted a string of one space as no timeout.
Witness_C7 ==
    /\ fn.pc = "timeoutOut"
    /\ fn.in = <<" ">>
    /\ fn.out = [d |-> 0, err |-> Nil]

\* C8: the catalog of a constructed Target is the list the one library listing
\* of construction returned, and stays it whatever Scan and Available calls
\* run; the listing is never fetched again.
Thm_C8 ==
    Constructed =>
        /\ Len(remoteLog) = 2
        /\ remoteLog[2].op = "Libraries"
        /\ \A j \in 1..Len(remoteLog) : remoteLog[j].op = "Libraries" => j = 2
        /\ T.libraries = remoteLog[2].libs
        /\ \A w \in Workers : \A j \in 1..Len(wk[w].sent) :
              wk[w].sent[j].op # "Libraries"

\* A Target with a non-empty catalog on which a Scan has failed and an
\* Available has returned.
Witness_C8 ==
    /\ Constructed
    /\ T.libraries # <<>>
    /\ anyFailed
    /\ \E w \in AvailableCalls : wk[w].pc = "done"

\* What an Available call has done so far: one version query, and once it has
\* returned, that query's error as the result.
AvailableInv ==
    \A w \in AvailableCalls :
        LET c == wk[w]
        IN  /\ c.sent = <<[op |-> "Version", path |-> <<>>, id |-> 0]>>
            /\ c.pc \in {"wait", "done"}
            /\ c.pc = "wait" => c.outs = <<>>
            /\ c.pc = "done" => Len(c.outs) = 1 /\ c.result = c.outs[1].err

\* A step of an Available call leaves the Target and its construction alone.
AvailableFrame ==
    \A w \in Workers :
        (wk'[w] # wk[w] /\ wk'[w].op = "Available") =>
            /\ ret' = ret
            /\ cfg' = cfg
            /\ remoteLog' = remoteLog

\* C9: Available makes exactly one version query and returns that query's
\* error verbatim (nil iff the query succeeded), whatever version is reported,
\* and leaves the Target unchanged.
Thm_C9 == []AvailableInv /\ [][AvailableFrame]_vars

\* An Available that returned nil although the remote reported 1.19.
Witness_C9 ==
    \E w \in AvailableCalls :
        /\ wk[w].pc = "done"
        /\ wk[w].outs[1].version = <<"1", ".", "1", "9">>
        /\ wk[w].result = Nil

\* What a Scan of folder does on a freshly constructed Target holding catalog
\* and rewriter rw when its trigger calls return outs: the triggers it has
\* issued and what it returns.
FreshScan(catalog, rw, folder, outs) ==
    LET path  == Rewrite(rw, folder)
        M     == Matching(catalog, path)
        fails == {j \in 1..Len(outs) : outs[j].err # Nil}
    IN  [sent   |-> [j \in 1..Len(outs) |->
                        [op |-> "Scan", path |-> path, id |-> M[j].ID]],
         issued |-> IF fails = {} THEN Len(M) ELSE Least(fails),
         result |-> IF fails = {} THEN Nil ELSE outs[Least(fails)].err]

\* C10: a failed Scan aborts only that Scan: whatever calls came before, what
\* a Scan issues and returns is what a freshly constructed Target would, given
\* the catalog, the rewritten folder and that Scan's own trigger outcomes.
Thm_C10 ==
    \A w \in ScanCalls :
        LET c == wk[w]
            fresh == FreshScan(remoteLog[2].libs, cfg.rewrite, c.folder, c.outs)
        IN  c.pc = "done" =>
              /\ c.sent = fresh.sent
              /\ Len(c.sent) = fresh.issued
              /\ c.result = fresh.result

\* A Scan started after another Scan had failed, that issued its triggers and
\* returned nil.
Witness_C10 ==
    \E w \in ScanCalls :
        /\ wk[w].after
        /\ wk[w].pc = "done"
        /\ Len(wk[w].sent) >= 1
        /\ wk[w].result = Nil

\* What one step may do to the triggers of worker w's Scan call: a call in
\* progress keeps its folder and the triggers it has issued, and a trigger is
\* added only by that call itself, standing at its loop head with every
\* earlier trigger returned without error; the trigger added is the one for the
\* next matching library, and the step touches no other worker's call.
ScanCallStep(w) ==
    LET c == wk[w]
        d == wk'[w]
        k == Len(c.sent)
    IN  /\ (c.op = "Scan" /\ c.pc \in {"send", "wait"}) =>
              /\ d.op = "Scan"
              /\ d.folder = c.folder
              /\ Len(d.sent) >= k
              /\ SubSeq(d.sent, 1, k) = c.sent
        /\ (d.op = "Scan" /\ d.sent # <<>> /\ d.sent # c.sent) =>
              /\ c.op = "Scan"
              /\ c.pc = "send"
              /\ Len(c.outs) = k
              /\ \A j \in 1..k : c.outs[j].err = Nil
              /\ Len(d.sent) = k + 1
              /\ k + 1 <= Len(MatchingOf(c))
              /\ d.sent[k + 1].id = MatchingOf(c)[k + 1].ID
              /\ \A v \in Workers \ {w} : wk'[v] = wk[v]

\* The triggers a Scan call has issued are the first ones of its matching
\* libraries, and at most the last of them is unanswered or failed.
ScanCallInv(w) ==
    LET c == wk[w]
        M == MatchingOf(c)
        k == Len(c.sent)
    IN  /\ k <= Len(M)
        /\ \A j \in 1..k : c.sent[j].id = M[j].ID
        /\ Len(c.outs) \in {k - 1, k}
        /\ Len(c.outs) = k - 1 <=> c.pc = "wait"
        /\ \A j \in 1..(k - 1) : c.outs[j].err = Nil

\* C11: under any interleaving of concurrent Scan calls on one Target, the
\* triggers each call has issued are, in issue order, a prefix of that call's
\* matching libraries in catalog order, and a call issues its next trigger
\* only after its previous one returned successfully; steps of other calls
\* neither add, drop nor reorder a call's triggers.
Thm_C11 ==
    /\ [](\A w \in ScanCalls : ScanCallInv(w))
    /\ [][\A w \in Workers : ScanCallStep(w)]_vars

\* Two Scan calls in flight at once, each with a trigger outstanding, one on
\* its second trigger and the other on its first.
Witness_C11 ==
    \E w, v \in ScanCalls :
        /\ w # v
        /\ wk[w].pc = "wait" /\ Len(wk[w].sent) = 2
        /\ wk[v].pc = "wait" /\ Len(wk[v].sent) = 1

\* Library L is among those the resolver returned for the folder.
ResolvesTo(L) == \E j \in 1..Len(fn.out.libs) : fn.out.libs[j] = L

\* C12 as stated: for all configured libraries L and folders F, F resolves to
\* L iff F is a literal string-prefix of L.path.
Orig_C12 ==
    fn.pc = "resolveOut" =>
        \A i \in 1..Len(fn.in.t.libraries) :
            LET L == fn.in.t.libraries[i]
            IN  ResolvesTo(L) <=> LiteralPrefix(fn.in.folder, L.Path)

\* C12, amended: for all configured libraries L and folders F, F resolves to
\* L iff L.path is a literal string-prefix of F.
Thm_C12 ==
    fn.pc = "resolveOut" =>
        \A i \in 1..Len(fn.in.t.libraries) :
            LET L == fn.in.t.libraries[i]
            IN  ResolvesTo(L) <=> LiteralPrefix(L.Path, fn.in.folder)

\* Folder /m against the roots /m/t and /m: the folder is a prefix of the
\* first root's path, and resolves to the second root only.
Witness_C12 ==
    /\ fn.pc = "resolveOut"
    /\ fn.in.folder = <<"/", "m">>
    /\ fn.in.t.libraries = << [ID |-> 2, Path |-> <<"/", "m", "/", "t">>],
                              [ID |-> 1, Path |-> <<"/", "m">>] >>
    /\ fn.out.libs = << [ID |-> 1, Path |-> <<"/", "m">>] >>

\* C13: Scan applies the rewriter once and uses the rewritten folder both to
\* resolve the libraries and as the path of every trigger: each trigger
\* carries path = rewrite(event.folder) and the id of a catalog library whose
\* path is a prefix of rewrite(event.folder). With the catalog /data/movies
\* (id 1), /data/tv (id 2), the identity rewrite and the folder
\* /data/movies/Inception (2010), exactly one trigger is issued: id 1 with
\* that folder as path.
Thm_C13 ==
    \A w \in ScanCalls :
        LET c == wk[w]
            path == Rewrite(cfg.rewrite, c.folder)
        IN  /\ \A j \in 1..Len(c.sent) :
                  /\ c.sent[j].op = "Scan"
                  /\ c.sent[j].path = path
                  /\ \E i \in 1..Len(T.libraries) :
                        /\ T.libraries[i].ID = c.sent[j].id
                        /\ LiteralPrefix(T.libraries[i].Path, path)
            /\ c.pc # "done" => c.libs = Matching(T.libraries, path)
            /\ ( /\ T.libraries = ExampleCatalog
                 /\ cfg.rewrite = "identity"
                 /\ c.folder = ExampleFolder
                 /\ c.pc # "send" )
                  => c.sent = <<[op |-> "Scan", path |-> ExampleFolder, id |-> 1]>>

\* Under the rule that drops a leading /m, a Scan of /m/m/t on the catalog
\* /m/t, /t has triggered /m/t alone, with the path /m/t: the folder as it
\* came matches neither root and the folder rewritten twice matches /t.
Witness_C13 ==
    \E w \in ScanCalls :
        /\ cfg.rewrite = "rule"
        /\ T.libraries = << [ID |-> 2, Path |-> <<"/", "m", "/", "t">>],
                            [ID |-> 3, Path |-> <<"/", "t">>] >>
        /\ wk[w].folder = <<"/", "m", "/", "m", "/", "t">>
        /\ wk[w].pc = "done"
        /\ wk[w].sent = <<[op |-> "Scan", path |-> <<"/", "m", "/", "t">>,
                           id |-> 2]>>

\* host without a leading "www.".
WithoutWww(host) ==
    IF Len(host) >= 4 /\ \A i \in 1..4 : host[i] = Www[i]
    THEN [i \in 1..(Len(host) - 4) |-> host[i + 4]]
    ELSE host

\* The identifier autoscan-example.com:32400.
ExampleIdentifier ==
    <<"a", "u", "t", "o", "s", "c", "a", "n", "-",
      "e", "x", "a", "m", "p", "l", "e", ".", "c", "o", "m", ":",
      "3", "2", "4", "0", "0">>

\* C14: a non-blank configured client identifier is used unchanged; a blank
\* one is replaced by "autoscan-" followed by the host (port included) of the
\* configured URL without a leading "www.", and by "autoscan" when the URL
\* does not parse or its host is empty, also after the stripping; the URL
\* https://www.example.com:32400 gives autoscan-example.com:32400. A blank
\* product is replaced by "autoscan", any other product is used unchanged.
Thm_C14 ==
    fn.pc = "identityOut" =>
        \E c \in {fn.in} : \E u \in {UrlParse(fn.in.url)} :
            /\ ~IsBlank(c.clientIdentifier) =>
                  fn.out.clientIdentifier = c.clientIdentifier
            /\ (IsBlank(c.clientIdentifier)
                   /\ (~u.ok \/ u.Host = <<>> \/ WithoutWww(u.Host) = <<>>)) =>
                  fn.out.clientIdentifier = Autoscan
            /\ (IsBlank(c.clientIdentifier)
                   /\ u.ok /\ WithoutWww(u.Host) # <<>>) =>
                  fn.out.clientIdentifier
                      = Autoscan \o <<"-">> \o WithoutWww(u.Host)
            /\ (IsBlank(c.clientIdentifier) /\ c.url = ExampleUrl) =>
                  fn.out.clientIdentifier = ExampleIdentifier
            /\ fn.out.product
                  = IF IsBlank(c.product) THEN Autoscan ELSE c.product

\* A whitespace-only identifier with the URL https://www.example.com:32400:
\* the identifier is autoscan-example.com:32400.
Witness_C14 ==
    /\ fn.pc = "identityOut"
    /\ fn.in.clientIdentifier = <<" ">>
    /\ fn.in.url = ExampleUrl
    /\ fn.out.clientIdentifier = ExampleIdentifier

\* What the calls on a Target send to the remote: a Scan nothing but scan
\* triggers, and at least one once it is past the loop head with a matching
\* library; an Available one version query and nothing else, its result nil
\* whenever the query succeeded. The steps of New stay those of construction.
GateOnlyInNew ==
    /\ \A w \in ScanCalls :
          /\ \A j \in 1..Len(wk[w].sent) : wk[w].sent[j].op = "Scan"
          /\ (Len(MatchingOf(wk[w])) >= 1 /\ wk[w].pc # "send")
                => Len(wk[w].sent) >= 1
    /\ \A w \in AvailableCalls :
          /\ Len(wk[w].sent) = 1
          /\ wk[w].sent[1].op = "Version"
          /\ (wk[w].pc = "done" /\ wk[w].outs[1].err = Nil)
                => wk[w].result = Nil
    /\ Constructed =>
          /\ trace = NewSteps
          /\ Len(remoteLog) = 2

\* C15: the compatibility gate is evaluated only during construction. A
\* Scan issues no remote call other than scan triggers and an Available none
\* other than one version query, so on a constructed Target Scan goes on
\* issuing triggers and Available goes on returning nil when the remote
\* reports a version below the floor; no call adds a step or a remote call to
\* those of New.
Thm_C15 ==
    /\ []GateOnlyInNew
    /\ [][Constructed => (trace' = trace /\ remoteLog' = remoteLog)]_vars

\* An Available was told a version below the floor and returned nil, and a
\* Scan started after that has issued its triggers and returned nil.
Witness_C15 ==
    \E v \in AvailableCalls, w \in ScanCalls :
        /\ wk[v].pc = "done"
        /\ wk[v].outs[1].err = Nil
        /\ ~MeetsFloor(wk[v].outs[1].version)
        /\ wk[v].result = Nil
        /\ wk[w].belowFloor
        /\ wk[w].pc = "done"
        /\ Len(wk[w].sent) >= 1
        /\ wk[w].result = Nil

\* The sensitive key a line starts with after its leading whitespace, <<>>
\* when it starts with none.
KeyOfLine(line) ==
    LET k == LeadingCount(line, Whitespace)
        keys == {key \in SensitiveKeys :
                    /\ Len(line) >= k + Len(key) + 1
                    /\ \A i \in 1..Len(key) : line[k + i] = key[i]
                    /\ line[k + Len(key) + 1] = ":"}
    IN  IF keys = {} THEN <<>> ELSE CHOOSE key \in keys : TRUE

\* shown is raw redacted line by line: as many lines, in the same order; a
\* line that starts with a sensitive key becomes its leading spaces, the key
\* and : "REDACTED"; every other line is unchanged.
RedactedLineByLine(raw, shown) ==
    LET ins == Split(raw, "\n")
        outs == Split(shown, "\n")
    IN  /\ Len(outs) = Len(ins)
        /\ \A i \in 1..Len(ins) :
              outs[i] = IF KeyOfLine(ins[i]) = <<>> THEN ins[i]
                        ELSE Spaces(LeadingCount(ins[i], {" "}))
                                 \o KeyOfLine(ins[i]) \o Redacted

\* The line-by-line part of C16 alone.
LineByLine_C16 ==
    fn.pc = "redactOut" =>
        /\ RedactedLineByLine(Marshal(fn.in.c), fn.out.c)
        /\ RedactedLineByLine(Marshal(fn.in.d), fn.out.d)

\* C16: redactConfig keeps the number and order of lines, replaces every
\* line whose first non-whitespace text is the key token:, password: or
\* apiKey: by the same leading-space indent followed by key: "REDACTED", and
\* leaves every other line unchanged, so that two configurations differing
\* only in the values of token, password or apiKey fields render identical
\* output.
Orig_C16 ==
    fn.pc = "redactOut" =>
        /\ RedactedLineByLine(Marshal(fn.in.c), fn.out.c)
        /\ RedactedLineByLine(Marshal(fn.in.d), fn.out.d)
        /\ fn.out.c = fn.out.d

====
